---- MODULE Spec2Model ----
(***************************************************************************)
(* Model of src/src/CircleSimulation.ts: the CircleSimulation class (one    *)
(* ball bouncing inside a ring, pointer dragging, the requestAnimationFrame *)
(* loop and the MediaRecorder-based recording).                             *)
(*                                                                          *)
(* Numbers.  The program computes in IEEE doubles.  The model computes in   *)
(* fixed point: a length, coordinate or velocity v of the program is the    *)
(* integer round(v * UNIT); the four tuning factors and unit vectors are    *)
(* integers over FRAC.  The one non-finite double the code can produce      *)
(* (0/0, or 0 * Infinity) is the value NaN, which every arithmetic operator *)
(* below propagates and every comparison treats as false, like the double.  *)
(* Times are integer milliseconds; elapsedTime holds the program's          *)
(* elapsedTime * 1000.                                                      *)
(***************************************************************************)
EXTENDS Integers, Sequences, FiniteSets, TLC

(* ------------------------------ bounds -------------------------------- *)
\* number of MediaRecorder objects the environment lets the program construct
MaxRecorders == 2
\* largest value of performance.now(), in ms
MaxNow == 2
\* number of update() executions in one behaviour
MaxTicks == 3
\* number of update() executions in one behaviour in which recording operations
\* and simulation operations interleave
MaxJointTicks == 1
\* number of MediaRecorder objects constructed in such a behaviour
MaxJointRecorders == 1

\* number of update() executions in one behaviour of free flight
MaxFlightTicks == 120
\* update() executions in the specification of the pointer
MaxPointerTicks == 3
\* update() executions in the specification of the late drag, and how many
\* of them pass before the pointer first acts
MaxDragTicks == 7
QuietTicks == 4
\* update() executions in the specification of the tuned simulation
MaxTuneTicks == 2

(* --------------------------- number model ----------------------------- *)
UNIT == 100
FRAC == 10000
NaN == -2000000000

IsNaN(a) == a = NaN

\* a / b rounded to the nearest integer, b > 0
RDiv(a, b) == (2 * a + b) \div (2 * b)

NAdd(a, b) == IF IsNaN(a) \/ IsNaN(b) THEN NaN ELSE a + b
NSub(a, b) == IF IsNaN(a) \/ IsNaN(b) THEN NaN ELSE a - b
\* a * (f / FRAC): product of a quantity and a factor or unit-vector component
NMul(a, f) == IF IsNaN(a) \/ IsNaN(f) THEN NaN ELSE RDiv(a * f, FRAC)
\* (a / b) over FRAC; 0/0 is NaN (the code never divides a non-zero by zero
\* where this is used: a zero distance has zero dx and dy)
NDiv(a, b) == IF IsNaN(a) \/ IsNaN(b) \/ b = 0 THEN NaN ELSE RDiv(a * FRAC, b)
NGeq(a, b) == IF IsNaN(a) \/ IsNaN(b) THEN FALSE ELSE a >= b
NLeq(a, b) == IF IsNaN(a) \/ IsNaN(b) THEN FALSE ELSE a <= b
NLt(a, b) == IF IsNaN(a) \/ IsNaN(b) THEN FALSE ELSE a < b
NMin(a, b) == IF IsNaN(a) \/ IsNaN(b) THEN NaN ELSE IF a <= b THEN a ELSE b

RECURSIVE SqrtIter(_, _, _)
SqrtIter(n, lo, hi) ==
  IF lo >= hi THEN lo
  ELSE LET mid == (lo + hi + 1) \div 2
       IN IF mid * mid <= n THEN SqrtIter(n, mid, hi)
                            ELSE SqrtIter(n, lo, mid - 1)

\* Math.sqrt(dx*dx + dy*dy) for dx, dy in UNITs, result in UNITs
Hypot(dx, dy) ==
  IF IsNaN(dx) \/ IsNaN(dy) THEN NaN ELSE SqrtIter(dx * dx + dy * dy, 0, 46340)

\* Math.cos(Math.atan2(dy, dx)) and Math.sin(Math.atan2(dy, dx)) over FRAC,
\* with distance = Hypot(dx, dy); atan2(0, 0) is 0
CosAtan2(dy, dx, distance) ==
  IF IsNaN(distance) THEN NaN ELSE IF distance = 0 THEN FRAC ELSE RDiv(dx * FRAC, distance)
SinAtan2(dy, dx, distance) ==
  IF IsNaN(distance) THEN NaN ELSE IF distance = 0 THEN 0 ELSE RDiv(dy * FRAC, distance)

(* ---------------------- constants of the program ---------------------- *)
\* <<canvas.width, canvas.height>> of the canvas the object was constructed
\* with, in pixels; it never changes
VARIABLE canvas
\* the canvas of the specifications Spec, SpecRec and SpecSim
CanvasWidth == 360
CanvasHeight == 360
WIDTH == canvas[1] * UNIT
HEIGHT == canvas[2] * UNIT
INITIAL_BALL_RADIUS == 5 * UNIT
CIRCLE_RADIUS == (IF WIDTH <= HEIGHT THEN WIDTH ELSE HEIGHT) \div 2 - 125 * UNIT
MAX_BALL_RADIUS == (CIRCLE_RADIUS * 3) \div 2
MOTION_BLUR_STEPS == 5
MAX_COLLISION_POINTS == 50
DefaultGravity == 40
DefaultVelocityIncrease == 10200
DefaultVelocityDecay == 9995
DefaultBallGrowthRate == 10150
restitution == 9500
minVelocity == 1 * UNIT
circleCenter == <<WIDTH \div 2, HEIGHT \div 2>>
InitialBallCenter == <<WIDTH \div 2, RDiv(HEIGHT * 10, 27)>>
InitialBallVelocity == <<80, 80>>

\* the canvases of free flight: a ring of radius 6, which the ball outgrows,
\* and a ring of radius 200
FlightCanvases == {<<262, 262>>, <<650, 650>>}
\* the values a caller can pass as onCollision ("none": argument omitted)
Observers == {"none", "observer"}

\* the callbacks a caller can pass as onComplete ("none": argument omitted)
Callbacks == {"none", "cb1", "cb2"}
\* the pointer coordinates the environment delivers besides the ball's own
\* center: a point of the canvas outside the ring
PointerPoints == {<<10 * UNIT, 10 * UNIT>>}

(* ------------------------------- state -------------------------------- *)
VARIABLES
  \* fields of CircleSimulation
  onCollision,            \* the observer passed to the constructor, or "none"
  mediaRecorder,          \* 0 (null) or the index in recorders of the current MediaRecorder
  chunks,                 \* sequence of blobs; a blob is the index of the recorder that produced it
  animationId,
  running,
  startTime,
  elapsedTime,
  onRecordingComplete,
  isDragging,
  GRAVITY,
  VELOCITY_INCREASE_FACTOR,
  VELOCITY_DECAY,
  BALL_GROWTH_RATE,
  previousPositions,
  ballRadius,
  ballCenter,
  ballVelocity,
  collisionPoints,
  \* the browser
  now,                    \* performance.now()
  recorders,              \* the MediaRecorder objects constructed so far
  rafPending,             \* handles of the requestAnimationFrame callbacks not yet run or cancelled
  rafNext,                \* the handle the next requestAnimationFrame call returns
  \* what the program has done, for stating properties
  completed,              \* the onComplete invocations so far, in order
  lastOp,                 \* the operation that produced this state
  lastArg,                \* its arguments: <<x, y>> of a pointer event, else <<>>
  clockSetAt,             \* performance.now() when elapsedTime was last assigned
  nUpdate,                \* update() executions in that operation
  nDraw,                  \* draw() executions in that operation
  nRequest,               \* requestAnimationFrame calls in that operation
  nCollision,             \* onCollision invocations in that operation
  nHit,                   \* executions of the collision branch of update() in that operation
  ticks,                  \* update() executions since construction
  shifted                 \* collision points shifted out of the history since construction

recVars == <<mediaRecorder, chunks, onRecordingComplete, recorders, completed>>
tuneVars == <<GRAVITY, VELOCITY_INCREASE_FACTOR, VELOCITY_DECAY, BALL_GROWTH_RATE>>
ballVars == <<ballRadius, ballCenter, ballVelocity, previousPositions, collisionPoints>>
clockVars == <<startTime, elapsedTime>>
loopVars == <<running, isDragging, animationId, rafPending, rafNext>>
obsVars == <<lastOp, lastArg, clockSetAt, nUpdate, nDraw, nRequest, nCollision, nHit, ticks, shifted>>
vars == <<canvas, onCollision, recVars, tuneVars, ballVars, clockVars, loopVars, obsVars, now>>

\* the simulation part of the object, with the frame scheduler, as one value
This ==
  [running |-> running, isDragging |-> isDragging, animationId |-> animationId,
   startTime |-> startTime, elapsedTime |-> elapsedTime,
   ballRadius |-> ballRadius, ballCenter |-> ballCenter, ballVelocity |-> ballVelocity,
   previousPositions |-> previousPositions, collisionPoints |-> collisionPoints,
   rafPending |-> rafPending, rafNext |-> rafNext,
   nUpdate |-> 0, nDraw |-> 0, nRequest |-> 0, nCollision |-> 0, nHit |-> 0]

\* the state after operation op(arg) that leaves the simulation as the value t
Becomes(t, op, arg) ==
  /\ running' = t.running
  /\ isDragging' = t.isDragging
  /\ animationId' = t.animationId
  /\ startTime' = t.startTime
  /\ elapsedTime' = t.elapsedTime
  /\ ballRadius' = t.ballRadius
  /\ ballCenter' = t.ballCenter
  /\ ballVelocity' = t.ballVelocity
  /\ previousPositions' = t.previousPositions
  /\ collisionPoints' = t.collisionPoints
  /\ rafPending' = t.rafPending
  /\ rafNext' = t.rafNext
  /\ nUpdate' = t.nUpdate
  /\ nDraw' = t.nDraw
  /\ nRequest' = t.nRequest
  /\ nCollision' = t.nCollision
  /\ nHit' = t.nHit
  /\ ticks' = ticks + t.nUpdate
  /\ shifted' = shifted + (IF t.nHit > 0
                            THEN Len(collisionPoints) + t.nHit - Len(t.collisionPoints)
                            ELSE 0)
  /\ UNCHANGED <<canvas, onCollision>>
  /\ lastOp' = op
  /\ lastArg' = arg
  /\ clockSetAt' = IF t.nUpdate > 0 \/ op = "reset" THEN now ELSE clockSetAt

(* ------------------------------ physics ------------------------------- *)
\* push that never evicts
PushUnbounded(h, e, cap) == Append(h, e)

\* push with FIFO eviction above cap
Push(h, e, cap) ==
  LET a == Append(h, e) IN IF Len(a) > cap THEN Tail(a) ELSE a

\* the collision branch of update(): t already holds the integrated center
\* and the decayed velocity; dx, dy, distance are the locals of update()
\* the collision branch without the call of the observer
resolveCollisionSilent(t, dx, dy, distance) ==
  LET nx == NDiv(dx, distance)
      ny == NDiv(dy, distance)
      dot == NAdd(NMul(t.ballVelocity[1], nx), NMul(t.ballVelocity[2], ny))
      rx == NMul(NSub(t.ballVelocity[1], NMul(NAdd(dot, dot), nx)), restitution)
      ry == NMul(NSub(t.ballVelocity[2], NMul(NAdd(dot, dot), ny)), restitution)
      radius == IF t.ballRadius < MAX_BALL_RADIUS
                THEN NMin(NMul(t.ballRadius, BALL_GROWTH_RATE), MAX_BALL_RADIUS)
                ELSE t.ballRadius
      ix == NMul(rx, VELOCITY_INCREASE_FACTOR)
      iy == NMul(ry, VELOCITY_INCREASE_FACTOR)
      currentVelocity == Hypot(ix, iy)
      \* scale = minVelocity / currentVelocity; 1.0 / 0 is Infinity and
      \* 0 * Infinity is NaN (a zero speed has zero components)
      scale == NDiv(minVelocity, currentVelocity)
      vx == IF NLt(currentVelocity, minVelocity) THEN NMul(ix, scale) ELSE ix
      vy == IF NLt(currentVelocity, minVelocity) THEN NMul(iy, scale) ELSE iy
      cosA == CosAtan2(dy, dx, distance)
      sinA == SinAtan2(dy, dx, distance)
      collisionX == NAdd(circleCenter[1], NMul(CIRCLE_RADIUS, cosA))
      collisionY == NAdd(circleCenter[2], NMul(CIRCLE_RADIUS, sinA))
  IN [t EXCEPT
        !.ballVelocity = <<vx, vy>>,
        !.ballRadius = radius,
        !.collisionPoints = Push(@, <<collisionX, collisionY>>, MAX_COLLISION_POINTS),
        !.ballCenter = <<NAdd(circleCenter[1], NMul(CIRCLE_RADIUS - radius, cosA)),
                         NAdd(circleCenter[2], NMul(CIRCLE_RADIUS - radius, sinA))>>,
        !.nHit = @ + 1]

\* the collision branch without the growth of the ball
resolveCollisionNoGrowth(t, dx, dy, distance) ==
  LET nx == NDiv(dx, distance)
      ny == NDiv(dy, distance)
      dot == NAdd(NMul(t.ballVelocity[1], nx), NMul(t.ballVelocity[2], ny))
      rx == NMul(NSub(t.ballVelocity[1], NMul(NAdd(dot, dot), nx)), restitution)
      ry == NMul(NSub(t.ballVelocity[2], NMul(NAdd(dot, dot), ny)), restitution)
      radius == t.ballRadius
      ix == NMul(rx, VELOCITY_INCREASE_FACTOR)
      iy == NMul(ry, VELOCITY_INCREASE_FACTOR)
      currentVelocity == Hypot(ix, iy)
      \* scale = minVelocity / currentVelocity; 1.0 / 0 is Infinity and
      \* 0 * Infinity is NaN (a zero speed has zero components)
      scale == NDiv(minVelocity, currentVelocity)
      vx == IF NLt(currentVelocity, minVelocity) THEN NMul(ix, scale) ELSE ix
      vy == IF NLt(currentVelocity, minVelocity) THEN NMul(iy, scale) ELSE iy
      cosA == CosAtan2(dy, dx, distance)
      sinA == SinAtan2(dy, dx, distance)
      collisionX == NAdd(circleCenter[1], NMul(CIRCLE_RADIUS, cosA))
      collisionY == NAdd(circleCenter[2], NMul(CIRCLE_RADIUS, sinA))
  IN [t EXCEPT
        !.ballVelocity = <<vx, vy>>,
        !.ballRadius = radius,
        !.collisionPoints = Push(@, <<collisionX, collisionY>>, MAX_COLLISION_POINTS),
        !.ballCenter = <<NAdd(circleCenter[1], NMul(CIRCLE_RADIUS - radius, cosA)),
                         NAdd(circleCenter[2], NMul(CIRCLE_RADIUS - radius, sinA))>>,
        !.nCollision = IF onCollision # "none" THEN @ + 1 ELSE @,
        !.nHit = @ + 1]

resolveCollision(t, dx, dy, distance) ==
  LET nx == NDiv(dx, distance)
      ny == NDiv(dy, distance)
      dot == NAdd(NMul(t.ballVelocity[1], nx), NMul(t.ballVelocity[2], ny))
      rx == NMul(NSub(t.ballVelocity[1], NMul(NAdd(dot, dot), nx)), restitution)
      ry == NMul(NSub(t.ballVelocity[2], NMul(NAdd(dot, dot), ny)), restitution)
      radius == IF t.ballRadius < MAX_BALL_RADIUS
                THEN NMin(NMul(t.ballRadius, BALL_GROWTH_RATE), MAX_BALL_RADIUS)
                ELSE t.ballRadius
      ix == NMul(rx, VELOCITY_INCREASE_FACTOR)
      iy == NMul(ry, VELOCITY_INCREASE_FACTOR)
      currentVelocity == Hypot(ix, iy)
      \* scale = minVelocity / currentVelocity; 1.0 / 0 is Infinity and
      \* 0 * Infinity is NaN (a zero speed has zero components)
      scale == NDiv(minVelocity, currentVelocity)
      vx == IF NLt(currentVelocity, minVelocity) THEN NMul(ix, scale) ELSE ix
      vy == IF NLt(currentVelocity, minVelocity) THEN NMul(iy, scale) ELSE iy
      cosA == CosAtan2(dy, dx, distance)
      sinA == SinAtan2(dy, dx, distance)
      collisionX == NAdd(circleCenter[1], NMul(CIRCLE_RADIUS, cosA))
      collisionY == NAdd(circleCenter[2], NMul(CIRCLE_RADIUS, sinA))
  IN [t EXCEPT
        !.ballVelocity = <<vx, vy>>,
        !.ballRadius = radius,
        !.collisionPoints = Push(@, <<collisionX, collisionY>>, MAX_COLLISION_POINTS),
        !.ballCenter = <<NAdd(circleCenter[1], NMul(CIRCLE_RADIUS - radius, cosA)),
                         NAdd(circleCenter[2], NMul(CIRCLE_RADIUS - radius, sinA))>>,
        !.nCollision = IF onCollision # "none" THEN @ + 1 ELSE @,
        !.nHit = @ + 1]

\* update() whose collision test leaves the ball radius out
updateIgnoresRadius(t, time) ==
  LET vy1 == NAdd(t.ballVelocity[2], GRAVITY)
      vx2 == NMul(t.ballVelocity[1], VELOCITY_DECAY)
      vy2 == NMul(vy1, VELOCITY_DECAY)
      cx == NAdd(t.ballCenter[1], vx2)
      cy == NAdd(t.ballCenter[2], vy2)
      dx == NSub(cx, circleCenter[1])
      dy == NSub(cy, circleCenter[2])
      distance == Hypot(dx, dy)
      moved == [t EXCEPT
                  !.elapsedTime = time - t.startTime,
                  !.previousPositions = Push(@, t.ballCenter, MOTION_BLUR_STEPS),
                  !.ballVelocity = <<vx2, vy2>>,
                  !.ballCenter = <<cx, cy>>,
                  !.nUpdate = @ + 1]
  IN IF NGeq(distance, CIRCLE_RADIUS)
     THEN resolveCollision(moved, dx, dy, distance)
     ELSE moved

update(t, time) ==
  LET vy1 == NAdd(t.ballVelocity[2], GRAVITY)
      vx2 == NMul(t.ballVelocity[1], VELOCITY_DECAY)
      vy2 == NMul(vy1, VELOCITY_DECAY)
      cx == NAdd(t.ballCenter[1], vx2)
      cy == NAdd(t.ballCenter[2], vy2)
      dx == NSub(cx, circleCenter[1])
      dy == NSub(cy, circleCenter[2])
      distance == Hypot(dx, dy)
      moved == [t EXCEPT
                  !.elapsedTime = time - t.startTime,
                  !.previousPositions = Push(@, t.ballCenter, MOTION_BLUR_STEPS),
                  !.ballVelocity = <<vx2, vy2>>,
                  !.ballCenter = <<cx, cy>>,
                  !.nUpdate = @ + 1]
  IN IF NGeq(distance, CIRCLE_RADIUS - t.ballRadius)
     THEN resolveCollision(moved, dx, dy, distance)
     ELSE moved

\* draw() paints the canvas from the fields and changes none of them
draw(t) == [t EXCEPT !.nDraw = @ + 1]

requestAnimationFrame(t) ==
  [t EXCEPT !.animationId = t.rafNext,
            !.rafPending = @ \cup {t.rafNext},
            !.rafNext = @ + 1,
            !.nRequest = @ + 1]

cancelAnimationFrame(t, id) == [t EXCEPT !.rafPending = @ \ {id}]

\* animate() without its test of the running flag
animateUnguarded(t, time) == requestAnimationFrame(draw(update(t, time)))

animate(t, time) ==
  IF ~t.running THEN t
  ELSE requestAnimationFrame(draw(update(t, time)))

\* start() that never re-anchors startTime
startStale(t, time) == animate([t EXCEPT !.running = TRUE], time)

start(t, time) ==
  LET a == IF ~t.running
           THEN [t EXCEPT !.startTime = time - t.elapsedTime]
           ELSE t
  IN animate([a EXCEPT !.running = TRUE], time)

stop(t) == cancelAnimationFrame([t EXCEPT !.running = FALSE], t.animationId)

\* reset() that keeps the motion samples
resetKeepsTrail(t, time) ==
  [t EXCEPT !.ballRadius = INITIAL_BALL_RADIUS,
            !.ballCenter = InitialBallCenter,
            !.ballVelocity = InitialBallVelocity,
            !.collisionPoints = <<>>,
            !.startTime = time,
            !.elapsedTime = 0]

reset(t, time) ==
  [t EXCEPT !.ballRadius = INITIAL_BALL_RADIUS,
            !.ballCenter = InitialBallCenter,
            !.ballVelocity = InitialBallVelocity,
            !.collisionPoints = <<>>,
            !.previousPositions = <<>>,
            !.startTime = time,
            !.elapsedTime = 0]

\* handleMouseDown() that misses a press on the rim of the ball
handleMouseDownStrict(t, x, y) ==
  LET dx == NSub(x, t.ballCenter[1])
      dy == NSub(y, t.ballCenter[2])
      distance == Hypot(dx, dy)
  IN IF NLt(distance, t.ballRadius)
     THEN stop([t EXCEPT !.isDragging = TRUE])
     ELSE t

handleMouseDown(t, x, y) ==
  LET dx == NSub(x, t.ballCenter[1])
      dy == NSub(y, t.ballCenter[2])
      distance == Hypot(dx, dy)
  IN IF NLeq(distance, t.ballRadius)
     THEN stop([t EXCEPT !.isDragging = TRUE])
     ELSE t

\* handleMouseMove() that drops the motion samples
handleMouseMoveClearsTrail(t, x, y) ==
  IF t.isDragging
  THEN draw([t EXCEPT !.ballCenter = <<x, y>>, !.ballVelocity = <<0, 0>>,
                      !.previousPositions = <<>>])
  ELSE t

handleMouseMove(t, x, y) ==
  IF t.isDragging
  THEN draw([t EXCEPT !.ballCenter = <<x, y>>, !.ballVelocity = <<0, 0>>])
  ELSE t

handleMouseUp(t, time) ==
  IF t.isDragging
  THEN start([t EXCEPT !.isDragging = FALSE], time)
  ELSE t

(* ------------------------------ setters ------------------------------- *)
\* the value each setter stores for its argument; gravity is in UNITs per
\* tick, the other arguments are over FRAC
setGravity(value) == value
setVelocityIncrease(value) == FRAC + value
setVelocityDecay(value) == value
setBallGrowthRate(value) == FRAC + value

(* ----------------------------- recording ------------------------------ *)
\* new MediaRecorder(combinedStream, options): a recorder starts inactive,
\* with no stop task queued and no media data gathered.  onComplete is not a
\* field of the recorder: it notes, for stating properties, the callback
\* passed to the startRecording call that started it
NewMediaRecorder ==
  [state |-> "inactive", stopQueued |-> FALSE, data |-> FALSE, onComplete |-> "none"]

\* the recording part of the object, with the recorders, as one value
Rec ==
  [mediaRecorder |-> mediaRecorder, chunks |-> chunks,
   onRecordingComplete |-> onRecordingComplete,
   recorders |-> recorders, completed |-> completed]

RecBecomes(r) ==
  /\ mediaRecorder' = r.mediaRecorder
  /\ chunks' = r.chunks
  /\ onRecordingComplete' = r.onRecordingComplete
  /\ recorders' = r.recorders
  /\ completed' = r.completed

setupRecording(r) ==
  [r EXCEPT !.recorders = Append(@, NewMediaRecorder),
            !.mediaRecorder = Len(r.recorders) + 1]

startRecording(r, onComplete) ==
  LET s == setupRecording(r)
  IN IF s.mediaRecorder # 0 /\ s.recorders[s.mediaRecorder].state = "inactive"
     THEN [s EXCEPT !.chunks = <<>>,
                    !.onRecordingComplete = onComplete,
                    !.recorders[s.mediaRecorder].state = "recording",
                    !.recorders[s.mediaRecorder].onComplete = onComplete]
     ELSE s

\* MediaRecorder.stop(): the recorder becomes inactive at once and a task is
\* queued that fires dataavailable and then stop
stopRecording(r) ==
  IF r.mediaRecorder # 0 /\ r.recorders[r.mediaRecorder].state = "recording"
  THEN [r EXCEPT !.recorders[r.mediaRecorder].state = "inactive",
                 !.recorders[r.mediaRecorder].stopQueued = TRUE]
  ELSE r

\* mediaRecorder.ondataavailable, for the blob of recorder i
ondataavailable(r, i) ==
  IF r.recorders[i].data THEN [r EXCEPT !.chunks = Append(@, i)] ELSE r

\* mediaRecorder.onstop, fired at recorder i
onstop(r, i) ==
  LET finalBlob == r.chunks
      called == IF r.onRecordingComplete # "none"
                THEN [r EXCEPT !.completed =
                        Append(@, [callback |-> r.onRecordingComplete,
                                   blob |-> finalBlob, recorder |-> i])]
                ELSE r
  IN [called EXCEPT !.chunks = <<>>]

(* ------------------------------ actions ------------------------------- *)
StartRecording ==
  /\ Len(recorders) < MaxRecorders
  /\ \E onComplete \in Callbacks :
       /\ RecBecomes(startRecording(Rec, onComplete))
       /\ Becomes(This, "startRecording", <<>>)
  /\ UNCHANGED <<tuneVars, now>>

\* stopRecording() that also stops the simulation
StopRecordingHalts ==
  /\ RecBecomes(stopRecording(Rec))
  /\ Becomes(stop(This), "stopRecording", <<>>)
  /\ UNCHANGED <<tuneVars, now>>

StopRecording ==
  /\ RecBecomes(stopRecording(Rec))
  /\ Becomes(This, "stopRecording", <<>>)
  /\ UNCHANGED <<tuneVars, now>>

\* the encoder of a recording recorder gathers media data
EncoderGather ==
  /\ \E i \in 1..Len(recorders) :
       /\ recorders[i].state = "recording"
       /\ ~recorders[i].data
       /\ recorders' = [recorders EXCEPT ![i].data = TRUE]
  /\ Becomes(This, "gather", <<>>)
  /\ UNCHANGED <<mediaRecorder, chunks, onRecordingComplete, completed, tuneVars, now>>

\* the task queued by MediaRecorder.stop() runs: dataavailable, then stop
EncoderStopTask ==
  /\ \E i \in 1..Len(recorders) :
       /\ recorders[i].stopQueued
       /\ RecBecomes(onstop(ondataavailable(
             [Rec EXCEPT !.recorders[i].stopQueued = FALSE], i), i))
  /\ Becomes(This, "onstop", <<>>)
  /\ UNCHANGED <<tuneVars, now>>

Start ==
  /\ Becomes(start(This, now), "start", <<>>)
  /\ UNCHANGED <<recVars, tuneVars, now>>

Stop ==
  /\ Becomes(stop(This), "stop", <<>>)
  /\ UNCHANGED <<recVars, tuneVars, now>>

Reset ==
  /\ Becomes(reset(This, now), "reset", <<>>)
  /\ UNCHANGED <<recVars, tuneVars, now>>

\* the points a pointer event can carry
Pointers ==
  PointerPoints \cup (IF IsNaN(ballCenter[1]) THEN {} ELSE {ballCenter})

\* the point of the ball's rim right of the center, and the point one
\* hundredth of a pixel beyond it
RimPoints ==
  IF IsNaN(ballCenter[1]) \/ IsNaN(ballCenter[2]) THEN {}
  ELSE {<<ballCenter[1] + ballRadius, ballCenter[2]>>,
        <<ballCenter[1] + ballRadius + 1, ballCenter[2]>>}

\* a press at the rim of the ball
HandleMouseDownAtRim ==
  /\ \E p \in RimPoints : Becomes(handleMouseDown(This, p[1], p[2]), "handleMouseDown", p)
  /\ UNCHANGED <<recVars, tuneVars, now>>

HandleMouseDown ==
  /\ \E p \in Pointers : Becomes(handleMouseDown(This, p[1], p[2]), "handleMouseDown", p)
  /\ UNCHANGED <<recVars, tuneVars, now>>

HandleMouseMove ==
  /\ \E p \in Pointers : Becomes(handleMouseMove(This, p[1], p[2]), "handleMouseMove", p)
  /\ UNCHANGED <<recVars, tuneVars, now>>

HandleMouseUp ==
  /\ Becomes(handleMouseUp(This, now), "handleMouseUp", <<>>)
  /\ UNCHANGED <<recVars, tuneVars, now>>

RECURSIVE RunCallbacks(_, _, _)
RunCallbacks(t, k, time) ==
  IF k = 0 THEN t ELSE RunCallbacks(animate(t, time), k - 1, time)

\* a display refresh: the browser runs every callback that was pending when
\* the refresh began; callbacks requested meanwhile wait for the next one
Frame ==
  /\ rafPending # {}
  /\ Becomes(RunCallbacks([This EXCEPT !.rafPending = {}],
                          Cardinality(rafPending), now), "frame", <<>>)
  /\ UNCHANGED <<recVars, tuneVars, now>>

\* the values passed to the setters: the default, and zero or a negative one
GravityValues == {0, 40}
VelocityIncreaseValues == {-FRAC, 200}
VelocityDecayValues == {0, 9995}
BallGrowthRateValues == {-5000, 150}

SetGravity ==
  /\ \E value \in GravityValues :
       /\ GRAVITY' = setGravity(value)
       /\ Becomes(This, "setGravity", <<value>>)
  /\ UNCHANGED <<VELOCITY_INCREASE_FACTOR, VELOCITY_DECAY, BALL_GROWTH_RATE, recVars, now>>

SetVelocityIncrease ==
  /\ \E value \in VelocityIncreaseValues :
       /\ VELOCITY_INCREASE_FACTOR' = setVelocityIncrease(value)
       /\ Becomes(This, "setVelocityIncrease", <<value>>)
  /\ UNCHANGED <<GRAVITY, VELOCITY_DECAY, BALL_GROWTH_RATE, recVars, now>>

SetVelocityDecay ==
  /\ \E value \in VelocityDecayValues :
       /\ VELOCITY_DECAY' = setVelocityDecay(value)
       /\ Becomes(This, "setVelocityDecay", <<value>>)
  /\ UNCHANGED <<GRAVITY, VELOCITY_INCREASE_FACTOR, BALL_GROWTH_RATE, recVars, now>>

SetBallGrowthRate ==
  /\ \E value \in BallGrowthRateValues :
       /\ BALL_GROWTH_RATE' = setBallGrowthRate(value)
       /\ Becomes(This, "setBallGrowthRate", <<value>>)
  /\ UNCHANGED <<GRAVITY, VELOCITY_INCREASE_FACTOR, VELOCITY_DECAY, recVars, now>>

\* performance.now() advances
AdvanceTime ==
  /\ now < MaxNow
  /\ now' = now + 1
  /\ Becomes(This, "time", <<>>)
  /\ UNCHANGED <<recVars, tuneVars>>

\* the state after new CircleSimulation(canvas, textElements, onCollision),
\* for a canvas of size and the observer (or "none") observer
Constructed(size, observer) ==
  /\ canvas = size
  /\ onCollision = observer
  /\ mediaRecorder = 0
  /\ chunks = <<>>
  /\ animationId = 0
  /\ running = FALSE
  /\ startTime = 0
  /\ elapsedTime = 0
  /\ onRecordingComplete = "none"
  /\ isDragging = FALSE
  /\ GRAVITY = DefaultGravity
  /\ VELOCITY_INCREASE_FACTOR = DefaultVelocityIncrease
  /\ VELOCITY_DECAY = DefaultVelocityDecay
  /\ BALL_GROWTH_RATE = DefaultBallGrowthRate
  /\ previousPositions = <<>>
  /\ collisionPoints = <<>>
  /\ ballRadius = INITIAL_BALL_RADIUS
  /\ ballCenter = InitialBallCenter
  /\ ballVelocity = InitialBallVelocity
  /\ now = 0
  /\ recorders = <<>>
  /\ rafPending = {}
  /\ rafNext = 1
  /\ completed = <<>>
  /\ lastOp = "constructor"
  /\ lastArg = <<>>
  /\ clockSetAt = 0
  /\ nUpdate = 0
  /\ nDraw = 0
  /\ nRequest = 0
  /\ nCollision = 0
  /\ nHit = 0
  /\ ticks = 0
  /\ shifted = 0

Init == Constructed(<<CanvasWidth, CanvasHeight>>, "observer")

NextRec ==
  \/ StartRecording
  \/ StopRecording
  \/ EncoderGather
  \/ EncoderStopTask

NextSimOps ==
  \/ Start
  \/ Stop
  \/ Reset
  \/ HandleMouseDown
  \/ HandleMouseMove
  \/ HandleMouseUp
  \/ Frame
  \/ AdvanceTime

NextSim == NextSimOps /\ ticks' <= MaxTicks

\* as NextSim, at one reading of the clock
NextSimNow ==
  \/ Start
  \/ Stop
  \/ Reset
  \/ HandleMouseDown
  \/ HandleMouseMove
  \/ HandleMouseUp
  \/ Frame

Next ==
  \/ NextRec /\ Len(recorders') <= MaxJointRecorders
  \/ NextSimNow /\ ticks' <= MaxJointTicks

\* recording and simulation operations interleaved
Spec == Init /\ [][Next]_vars
\* the recording operations and the encoder alone
SpecRec == Init /\ [][NextRec]_vars
\* the simulation operations, the pointer and the frame scheduler alone
SpecSim == Init /\ [][NextSim]_vars

\* the pointer at work on the simulation, at one reading of the clock: as
\* NextSimNow without reset, and with presses at the rim of the ball
NextPointer ==
  /\ \/ Start
     \/ Stop
     \/ HandleMouseDown
     \/ HandleMouseDownAtRim
     \/ HandleMouseMove
     \/ HandleMouseUp
     \/ Frame
  /\ ticks' <= MaxPointerTicks

SpecPointer == Init /\ [][NextPointer]_vars

\* the late drag: the simulation is started and flies undisturbed for
\* QuietTicks ticks, so that the motion samples fill up; from then on the
\* pointer acts between the frames
NextDrag ==
  /\ \/ Start /\ ~running /\ ticks = 0
     \/ Frame
     \/ HandleMouseDown /\ ticks >= QuietTicks
     \/ HandleMouseMove /\ ticks >= QuietTicks
     \/ HandleMouseUp /\ ticks >= QuietTicks
  /\ ticks' <= MaxDragTicks

SpecDrag == Init /\ [][NextDrag]_vars

\* the tuned simulation: the setters, start, the frames and the pointer, on a
\* canvas too small for a ring (CIRCLE_RADIUS 0) and on the canvas of Init
TuneCanvases == {<<250, 250>>, <<CanvasWidth, CanvasHeight>>}

InitTune == \E size \in TuneCanvases : Constructed(size, "observer")

NextTune ==
  /\ \/ SetGravity
     \/ SetVelocityIncrease
     \/ SetVelocityDecay
     \/ SetBallGrowthRate
     \/ Start
     \/ Frame
     \/ HandleMouseDown
     \/ HandleMouseMove
     \/ HandleMouseUp
  /\ ticks' <= MaxTuneTicks

SpecTune == InitTune /\ [][NextTune]_vars

\* free flight: the simulation is started once and the frames follow, on
\* either canvas, with or without a collision observer
InitFlight ==
  \E size \in FlightCanvases : \E observer \in Observers : Constructed(size, observer)

NextFlight ==
  /\ \/ Start /\ ~running
     \/ Frame
  /\ ticks' <= MaxFlightTicks

SpecFlight == InitFlight /\ [][NextFlight]_vars

\* a frame callback is pending and the tick bound leaves room to run it:
\* ENABLED <<Frame /\ ticks' <= MaxFlightTicks>>_vars in free flight
FramePending == rafPending # {} /\ ticks < MaxFlightTicks

\* free flight where the browser keeps delivering the animation frame that
\* animate() requested.  This is weak fairness of the frame step,
\* WF_vars(Frame /\ ticks' <= MaxFlightTicks), with its enabling condition
\* written out as FramePending
SpecFlightFair ==
  /\ SpecFlight
  /\ \/ []<>(~FramePending)
     \/ []<><<Frame /\ ticks' <= MaxFlightTicks>>_vars

(* ------------------------ vocabulary of the claims --------------------- *)
\* the recording session, read off the current MediaRecorder
Capturing == mediaRecorder # 0 /\ recorders[mediaRecorder].state = "recording"
Finalizing == mediaRecorder # 0 /\ recorders[mediaRecorder].stopQueued
\* recorder i was stopped and its stop task has run (every recorder is
\* started by the call that constructs it)
Done(i) == recorders[i].state = "inactive" /\ ~recorders[i].stopQueued
\* the onComplete invocations made at the stop event of recorder i
InvocationsFor(i) == {k \in 1..Len(completed) : completed[k].recorder = i}
Mode == IF isDragging THEN "Dragging" ELSE IF running THEN "Running" ELSE "Idle"

(* ------------------------------- claims -------------------------------- *)
\* C1: startRecording called while the session is Capturing is a no-op: it
\* begins no second encoder session and leaves the registered onComplete and
\* the buffered chunks unchanged.
C1_StartWhileCapturingIsNoOp ==
  [][(lastOp' = "startRecording" /\ Capturing)
       => UNCHANGED <<mediaRecorder, recorders, onRecordingComplete, chunks>>]_vars

\* C2: every stopRecording issued while Capturing, by a session that
\* registered an onComplete, causes exactly one onComplete invocation, made
\* after the stop (none before the recorder's stop task has run, one from then
\* on); a stopRecording issued while not capturing changes no state.
C2_OneOnCompletePerStop ==
  /\ [](\A i \in 1..Len(recorders) :
          recorders[i].onComplete # "none"
            => Cardinality(InvocationsFor(i)) = (IF Done(i) THEN 1 ELSE 0))
  /\ [][(lastOp' = "stopRecording" /\ ~Capturing) => UNCHANGED recVars]_vars

\* C3: startRecording is accepted only from Inactive: issued while the
\* stopped session is still Finalizing it is a no-op, so every completion
\* invokes the onComplete registered by the session that was stopped, with
\* the data of that session only.
C3_StartOnlyFromInactive ==
  /\ [][(lastOp' = "startRecording" /\ Finalizing)
          => UNCHANGED <<mediaRecorder, recorders, onRecordingComplete, chunks>>]_vars
  /\ [](\A k \in 1..Len(completed) :
          /\ completed[k].callback = recorders[completed[k].recorder].onComplete
          /\ \A j \in 1..Len(completed[k].blob) :
               completed[k].blob[j] = completed[k].recorder)

\* C4: the simulation is never both dragging and ticking: no operation that
\* leaves isDragging true runs a physics step or appends to a history, and a
\* pointerMove(x, y) during a drag leaves center (x, y) and velocity (0, 0).
C4_DragXorTick ==
  /\ [](~(isDragging /\ running))
  /\ [][isDragging' => /\ nUpdate' = 0
                       /\ Len(previousPositions') <= Len(previousPositions)
                       /\ Len(collisionPoints') <= Len(collisionPoints)]_vars
  /\ [][(lastOp' = "handleMouseMove" /\ isDragging)
          => ballCenter' = lastArg' /\ ballVelocity' = <<0, 0>>]_vars

\* C5: the mode changes only along Idle -> Running (by start), Running ->
\* Dragging (by a pointerDown) and Dragging -> Running (by pointerUp); no
\* pointer event moves the mode out of Idle.
C5_ModeTransitions ==
  [][/\ (Mode = "Idle" /\ Mode' # "Idle") => (lastOp' = "start" /\ Mode' = "Running")
     /\ (Mode # "Dragging" /\ Mode' = "Dragging")
          => (Mode = "Running" /\ lastOp' = "handleMouseDown")
     /\ (Mode = "Dragging" /\ Mode' # "Dragging")
          => (Mode' = "Running" /\ lastOp' = "handleMouseUp")]_vars

\* C6: whenever pointerUp ends a drag, the physics step it resumes with
\* starts from velocity (0, 0).
C6_ReleaseFromRest ==
  [][(lastOp' = "handleMouseUp" /\ isDragging) => ballVelocity = <<0, 0>>]_vars

\* C7: at most one tick request is outstanding with the scheduler, and a
\* display refresh of a running simulation performs exactly one physics step,
\* one render and one re-arm.
C7_OneOutstandingTick ==
  /\ [](Cardinality(rafPending) <= 1)
  /\ [][(lastOp' = "frame" /\ running)
          => nUpdate' = 1 /\ nDraw' = 1 /\ nRequest' = 1]_vars

\* C8: while the simulation stays stopped no operation performs a physics
\* step or requests a tick, also when a frame callback requested earlier
\* fires; stop() itself leaves the ball, both histories and elapsed unchanged.
C8_NoTickWhileStopped ==
  [][/\ (~running /\ ~running')
          => nUpdate' = 0 /\ nRequest' = 0 /\ rafPending' \subseteq rafPending
     /\ lastOp' = "stop" => UNCHANGED <<ballVars, elapsedTime>>]_vars

\* a frame callback requested before stop() has fired on the stopped simulation
C8_Witness == lastOp = "frame" /\ ~running /\ nUpdate = 0 /\ ticks > 0

\* C9: elapsed is continuous across pauses: a tick that resumes a paused
\* simulation (start, or pointerUp after a drag) computes the elapsed value
\* frozen at the pause whatever the wall-clock gap, a tick of a running
\* simulation adds exactly the time passed since elapsed was last set, and
\* except by reset elapsed never decreases.
C9_ClockContinuity ==
  [][/\ nUpdate' > 0
          => elapsedTime' = elapsedTime + (IF running THEN now - clockSetAt ELSE 0)
     /\ lastOp' # "reset" => elapsedTime' >= elapsedTime]_vars

\* start() has resumed, after a gap, a simulation paused with elapsed > 0
C9_Witness ==
  /\ lastOp = "start"
  /\ nUpdate = 1
  /\ rafPending = {animationId}
  /\ elapsedTime > 0
  /\ startTime > 0
  /\ now = startTime + elapsedTime

\* C10: reset() in any state sets radius, center and velocity to their
\* initial values, empties both histories and sets elapsed to 0, and leaves
\* the running flag, the drag flag and the recording session unchanged.
C10_ResetEffect ==
  [][lastOp' = "reset"
       => /\ ballRadius' = INITIAL_BALL_RADIUS
          /\ ballCenter' = InitialBallCenter
          /\ ballVelocity' = InitialBallVelocity
          /\ previousPositions' = <<>>
          /\ collisionPoints' = <<>>
          /\ elapsedTime' = 0
          /\ UNCHANGED <<running, isDragging, recVars>>]_vars

\* reset() was called on a running simulation in mid-flight, during a drag
C10_Witness ==
  /\ lastOp = "reset"
  /\ running
  /\ isDragging
  /\ ticks >= 2
  /\ now > 0
  /\ ballCenter = InitialBallCenter
  /\ elapsedTime = 0


\* new is old after one push under the cap: one entry appended, and when old
\* was full exactly its first entry dropped, the others in their order
PushedFifo(old, new, cap) ==
  IF Len(old) < cap
  THEN Len(new) = Len(old) + 1 /\ SubSeq(new, 1, Len(old)) = old
  ELSE Len(new) = cap /\ SubSeq(new, 1, cap - 1) = SubSeq(old, 2, cap)

\* C11: the motion-sample history never holds more than MOTION_BLUR_STEPS
\* entries and the collision-point history never more than
\* MAX_COLLISION_POINTS; a tick pushes the center it started from onto the
\* first, and a collision one point onto the second, evicting exactly the
\* oldest entry when the history was full.
C11_BoundedFifoHistories ==
  /\ [](/\ Len(previousPositions) <= MOTION_BLUR_STEPS
        /\ Len(collisionPoints) <= MAX_COLLISION_POINTS)
  /\ [][nUpdate' = 1
          => /\ PushedFifo(previousPositions, previousPositions', MOTION_BLUR_STEPS)
             /\ previousPositions'[Len(previousPositions')] = ballCenter
             /\ IF nHit' = 1
                THEN PushedFifo(collisionPoints, collisionPoints', MAX_COLLISION_POINTS)
                ELSE collisionPoints' = collisionPoints]_vars

\* both histories are full and the collision history has evicted an entry
C11_Witness ==
  /\ Len(previousPositions) = MOTION_BLUR_STEPS
  /\ Len(collisionPoints) = MAX_COLLISION_POINTS
  /\ shifted > 0
  /\ nHit = 1

\* the center a tick reaches from center c with velocity v by gravity, decay
\* and integration, before any collision is resolved
IntegratedCenter(c, v) ==
  <<NAdd(c[1], NMul(v[1], VELOCITY_DECAY)),
    NAdd(c[2], NMul(NAdd(v[2], GRAVITY), VELOCITY_DECAY))>>

DistanceFromCircleCenter(c) ==
  Hypot(NSub(c[1], circleCenter[1]), NSub(c[2], circleCenter[2]))

\* C17: a tick resolves a collision exactly when, after gravity, decay and
\* integration, the distance of the ball center from the boundary center is
\* at least boundary radius minus ball radius; otherwise the radius and the
\* collision history are unchanged and the center is the integrated position.
C17_CollisionTest ==
  [][nUpdate' = 1
       => LET c == IntegratedCenter(ballCenter, ballVelocity)
          IN /\ nHit' = 1 <=> NGeq(DistanceFromCircleCenter(c), CIRCLE_RADIUS - ballRadius)
             /\ nHit' = 0 => /\ ballRadius' = ballRadius
                             /\ collisionPoints' = collisionPoints
                             /\ ballCenter' = c]_vars

\* the first tick whose test succeeds, after ticks whose test failed
C17_Witness == Len(collisionPoints) = 1 /\ nHit = 1 /\ ticks > 1 /\ canvas = <<650, 650>>

Abs(x) == IF x < 0 THEN -x ELSE x

\* C13: after any collision tick the ball is tangent to the boundary on the
\* inside: the distance of the ball center from the boundary center equals
\* boundary radius minus the grown radius (to five hundredths of a pixel, the
\* rounding of the arithmetic), for every radius up to MAX_BALL_RADIUS.
C13_NoPenetration ==
  nHit >= 1 =>
    Abs(DistanceFromCircleCenter(ballCenter) - (CIRCLE_RADIUS - ballRadius)) <= 5

SimulationOps ==
  {"start", "stop", "reset", "handleMouseDown", "handleMouseMove", "handleMouseUp", "frame"}
RecordingOps == {"startRecording", "stopRecording", "gather", "onstop"}

\* C16: recording is orthogonal to the simulation: start, stop, reset, the
\* pointer handlers and a frame never change the recording session, and
\* startRecording, stopRecording and the encoder's completion never change
\* the ball, the histories, the clock, the running flag or the drag flag,
\* whatever the mode.
C16_RecordingOrthogonal ==
  [][/\ lastOp' \in SimulationOps => UNCHANGED recVars
     /\ lastOp' \in RecordingOps
          => UNCHANGED <<ballVars, clockVars, running, isDragging, rafPending>>]_vars

\* a capture was started during a drag, after a tick
C16_Witness ==
  /\ lastOp = "startRecording"
  /\ Capturing
  /\ Mode = "Dragging"
  /\ ticks > 0


\* the simulation runs in the ring of radius 200 and has not met the wall
RunningInRing200 ==
  /\ running
  /\ canvas = <<650, 650>>
  /\ CIRCLE_RADIUS = 200 * UNIT
  /\ collisionPoints = <<>>

\* C18: a simulation with the default parameters and boundary radius 200,
\* running from the initial state under fair ticking, eventually has a
\* collision, and the radius after the first collision is
\* min(INITIAL_BALL_RADIUS * 1.015, MAX_BALL_RADIUS).
C18_EventuallyCollides ==
  /\ RunningInRing200 ~> (collisionPoints # <<>>)
  /\ [][(CIRCLE_RADIUS = 200 * UNIT /\ collisionPoints = <<>> /\ collisionPoints' # <<>>)
          => ballRadius' = NMin(NMul(INITIAL_BALL_RADIUS, DefaultBallGrowthRate),
                                MAX_BALL_RADIUS)]_vars

\* the ball has reached the wall of the ring of radius 200 and grown once
C18_Witness ==
  /\ running
  /\ CIRCLE_RADIUS = 200 * UNIT
  /\ collisionPoints # <<>>
  /\ ballRadius = NMul(INITIAL_BALL_RADIUS, DefaultBallGrowthRate)
  /\ ballRadius > INITIAL_BALL_RADIUS


\* the point p lies within the ball, rim included (no point lies within a
\* ball whose center is not a number)
WithinBall(p) ==
  /\ ~IsNaN(ballCenter[1])
  /\ ~IsNaN(ballCenter[2])
  /\ (p[1] - ballCenter[1]) * (p[1] - ballCenter[1])
       + (p[2] - ballCenter[2]) * (p[2] - ballCenter[2]) <= ballRadius * ballRadius

\* the operation changed nothing of the simulation and ran no tick or render
SimulationUnchanged ==
  /\ UNCHANGED <<recVars, tuneVars, ballVars, clockVars, loopVars>>
  /\ nUpdate' = 0
  /\ nDraw' = 0
  /\ nRequest' = 0

\* C19: pointer events outside a drag are no-ops: a pointerDown whose point
\* misses the ball, and a pointerMove or pointerUp while not dragging, change
\* nothing; a pointerDown enters dragging exactly when its point lies within
\* the ball's radius of the center, the rim included.
C19_PointerOutsideDrag ==
  [][/\ (lastOp' = "handleMouseDown" /\ ~WithinBall(lastArg')) => SimulationUnchanged
     /\ (lastOp' \in {"handleMouseMove", "handleMouseUp"} /\ ~isDragging)
          => SimulationUnchanged
     /\ (lastOp' = "handleMouseDown" /\ ~isDragging)
          => (isDragging' <=> WithinBall(lastArg'))]_vars

\* a press on the rim of the ball has started a drag
C19_Witness ==
  /\ lastOp = "handleMouseDown"
  /\ isDragging
  /\ lastArg = <<ballCenter[1] + ballRadius, ballCenter[2]>>
  /\ ticks > 0


\* C20: the drag handlers never remove or alter an entry of either history:
\* pointerDown and pointerMove leave both as they are, and pointerUp changes
\* them only by the tick it resumes with, which appends to the motion
\* samples (and on a collision to the collision points), evicting the oldest
\* entry of a full history.
C20_DragKeepsHistories ==
  [][/\ lastOp' \in {"handleMouseDown", "handleMouseMove"}
          => UNCHANGED <<previousPositions, collisionPoints>>
     /\ lastOp' = "handleMouseUp"
          => /\ \/ previousPositions' = previousPositions
                \/ /\ isDragging
                   /\ PushedFifo(previousPositions, previousPositions', MOTION_BLUR_STEPS)
             /\ \/ collisionPoints' = collisionPoints
                \/ /\ isDragging
                   /\ PushedFifo(collisionPoints, collisionPoints', MAX_COLLISION_POINTS)]_vars

\* the tick of a release has evicted the oldest of five motion samples, after
\* a drag that moved the ball
C20_Witness ==
  /\ lastOp = "handleMouseUp"
  /\ nUpdate = 1
  /\ ticks = MOTION_BLUR_STEPS + 1
  /\ Len(previousPositions) = MOTION_BLUR_STEPS
  /\ previousPositions[MOTION_BLUR_STEPS] \in PointerPoints


\* C12: between resets the radius never decreases and stays within
\* [INITIAL_BALL_RADIUS, MAX_BALL_RADIUS], for every boundary size and every
\* value passed to the setters.
C12_RadiusMonotoneBounded ==
  /\ [](INITIAL_BALL_RADIUS <= ballRadius /\ ballRadius <= MAX_BALL_RADIUS)
  /\ [][lastOp' # "reset" => ballRadius' >= ballRadius]_vars

\* C14: after any collision tick the speed is at least the minimum velocity
\* 1.0 (less two hundredths for rounding), for every velocity before the
\* collision, zero after a drag included, and every configured gravity, decay
\* and velocity increase.
C14_MinimumSpeed ==
  nHit >= 1 => NGeq(Hypot(ballVelocity[1], ballVelocity[2]), minVelocity - 2)

====
